---- MODULE Spec2Model ----
(***************************************************************************)
(* Model of i18nstats.py: the loader of translatable strings               *)
(* (load_translatable_dict), the translation comparator                    *)
(* (compare_translations), the canonical formatter (format_json) and the   *)
(* error accounting of a run (load_json_file, main).                       *)
(*                                                                         *)
(* Four specifications share the variables below; each one leaves the      *)
(* variables of the other three at their idle values.                      *)
(*   SpecLoad : load_translatable_dict, one record per step                *)
(*   Spec     : compare_translations, one localized code per step          *)
(*   SpecFmt  : format_json, the decode of its output and a second format  *)
(*   SpecRun  : main, one load_json_file per step                          *)
(***************************************************************************)
EXTENDS Integers, Sequences, FiniteSets, TLC

VARIABLES
    \* load_translatable_dict
    lpc, file_data, warn_if_extra, idx, translatables, total, found_extra,
    dup_warnings, entry_warnings,
    \* compare_translations
    cpc, source, en_dict, i18n_dict, i18n_order, pos, ignore_dict, stats,
    unexpected,
    \* format_json
    fpc, json_data, formatted, reparsed, reformatted,
    \* main
    rpc, fix_formatting, formatting_errors, validation_errors, not_canonical,
    rewritten, last_file, cycles, locale_no, file_no, summary, exit_status,
    exception

loadVars == <<lpc, file_data, warn_if_extra, idx, translatables, total,
              found_extra, dup_warnings, entry_warnings>>
cmpVars == <<cpc, source, en_dict, i18n_dict, i18n_order, pos, ignore_dict,
             stats, unexpected>>
fmtVars == <<fpc, json_data, formatted, reparsed, reformatted>>
runVars == <<rpc, fix_formatting, formatting_errors, validation_errors,
             not_canonical, rewritten, last_file, cycles, locale_no, file_no,
             summary, exit_status, exception>>
vars == <<loadVars, cmpVars, fmtVars, runVars>>

----------------------------------------------------------------------------
(* Bounds of the model.                                                    *)

MaxRecords == 3
MaxSrcRecords == 2
MaxLocRecords == 2
MaxIgnRecords == 1

Codes == {"01001", "02001"}
Fields == {"name", "text"}
Values == {"", "Noise"}
IgnoreValues == {"Noise"}

----------------------------------------------------------------------------
(* Dictionaries are functions; a record of a file is a function whose      *)
(* domain holds "code" and the record's other keys.                        *)

EmptyDict == [k \in {} |-> ""]

Restrict(d, S) == [k \in (DOMAIN d) \cap S |-> d[k]]

Put(d, k, v) == [x \in (DOMAIN d) \cup {k} |-> IF x = k THEN v ELSE d[x]]

\* a pop that leaves the entry in the dictionary
Pop_keeps(d, k) == d

Pop(d, k) == [x \in (DOMAIN d) \ {k} |-> d[x]]

Len0(d) == Cardinality(DOMAIN d)

RECURSIVE SumOver(_, _)
SumOver(d, S) ==
    IF S = {} THEN 0
    ELSE LET k == CHOOSE x \in S : TRUE
         IN Len0(d[k]) + SumOver(d, S \ {k})

\* The records of the files: a code and any of the model's fields, with
\* their texts.
Items(values) ==
    { c \in UNION { [ {"code"} \cup F -> Codes \cup values ] : F \in SUBSET Fields } :
        /\ c["code"] \in Codes
        /\ \A k \in (DOMAIN c) \ {"code"} : c[k] \in values }

FilesUpTo(n, values) == UNION { [1..k -> Items(values)] : k \in 0..n }

\* the same records, the first of them with a key outside the whitelist
WithExtra(data) == [data EXCEPT ![1] = Put(@, "pack_code", "core")]

\* a path as load_translatable_dict finds it: check_file_access and the
\* decoded content
Absent == [exists |-> FALSE, data |-> <<>>]

Existing(files) == { [exists |-> TRUE, data |-> d] : d \in files }

SourcePaths == {Absent} \cup Existing(FilesUpTo(MaxSrcRecords, Values))

LocalizedPaths ==
    {Absent} \cup Existing(FilesUpTo(MaxLocRecords, Values))
             \cup Existing({ WithExtra(d) :
                             d \in FilesUpTo(MaxLocRecords, Values) \ {<<>>} })

IgnorePaths == {Absent} \cup Existing(FilesUpTo(MaxIgnRecords, IgnoreValues))

----------------------------------------------------------------------------
(* get_translatable_strings, check_duplicate_codes, flatten_i18n_dict      *)

translatable_fields ==
    {"flavor", "name", "subname", "customization_text",
     "customization_change", "text", "traits", "back_name", "back_flavor",
     "back_text", "back_traits", "slot"}

get_translatable_strings(item) ==
    [result |-> Restrict(item, translatable_fields),
     extra  |-> ((DOMAIN item) \ (translatable_fields \cup {"code"})) # {}]

\* one warning for every record whose code an earlier record carries
check_duplicate_codes(data) ==
    Cardinality({ i \in 1..Len(data) :
                    \E j \in 1..(i - 1) : data[j]["code"] = data[i]["code"] })

\* flatten_i18n_dict writes the key into every value of the dictionary it is
\* given; the dictionary keeps the written values.
flatten_i18n_dict(d) == [k \in DOMAIN d |-> Put(d[k], "code", k)]

----------------------------------------------------------------------------
(* load_translatable_dict                                                  *)

LoadStart ==
    [translatables |-> EmptyDict, order |-> <<>>, total |-> 0,
     found_extra |-> FALSE, entry_warnings |-> 0]

\* one iteration of the loop over file_data
load_record(L, c) ==
    LET code == c["code"] IN
    IF code \in DOMAIN L.translatables
    THEN [L EXCEPT !.entry_warnings = @ + 1]
    ELSE LET ts == get_translatable_strings(c)
             n  == Len0(ts.result)
         IN [translatables |-> IF n > 0 THEN Put(L.translatables, code, ts.result)
                                        ELSE L.translatables,
             order |-> IF n > 0 THEN Append(L.order, code) ELSE L.order,
             total |-> L.total + n,
             found_extra |-> L.found_extra \/ ts.extra,
             entry_warnings |-> L.entry_warnings]

\* the statements after the loop: the dictionary is flattened for the
\* message when a record had extra keys and the caller asked for the warning
load_return(L, warn) ==
    IF L.found_extra /\ warn
    THEN [L EXCEPT !.translatables = flatten_i18n_dict(@)]
    ELSE L

RECURSIVE load_loop(_, _, _)
load_loop(L, data, i) ==
    IF i > Len(data) THEN L
    ELSE load_loop(load_record(L, data[i]), data, i + 1)

load_translatable_dict(file, warn) ==
    IF ~file.exists
    THEN [translatables |-> EmptyDict, order |-> <<>>, total |-> 0,
          dup_warnings |-> 0, entry_warnings |-> 0]
    ELSE LET L == load_return(load_loop(LoadStart, file.data, 1), warn)
         IN [translatables |-> L.translatables, order |-> L.order,
             total |-> L.total,
             dup_warnings |-> check_duplicate_codes(file.data),
             entry_warnings |-> L.entry_warnings]

----------------------------------------------------------------------------
(* SpecLoad: load_translatable_dict on one existing file, record by record *)

CmpIdle ==
    /\ cpc = "idle"
    /\ source = EmptyDict
    /\ en_dict = EmptyDict
    /\ i18n_dict = EmptyDict
    /\ i18n_order = <<>>
    /\ pos = 1
    /\ ignore_dict = EmptyDict
    /\ stats = [total |-> 0, translated |-> 0, untranslated |-> EmptyDict,
                missing |-> EmptyDict]
    /\ unexpected = 0

LoadIdle ==
    /\ lpc = "idle"
    /\ file_data = <<>>
    /\ warn_if_extra = FALSE
    /\ idx = 1
    /\ translatables = EmptyDict
    /\ total = 0
    /\ found_extra = FALSE
    /\ dup_warnings = 0
    /\ entry_warnings = 0

FmtIdle ==
    /\ fpc = "idle"
    /\ json_data = <<>>
    /\ formatted = <<>>
    /\ reparsed = <<>>
    /\ reformatted = <<>>

NoSummary == [printed |-> FALSE, formatting |-> 0, validation |-> 0]

RunIdle ==
    /\ rpc = "idle"
    /\ fix_formatting = FALSE
    /\ formatting_errors = 0
    /\ validation_errors = 0
    /\ not_canonical = 0
    /\ rewritten = 0
    /\ last_file = "none"
    /\ cycles = "unset"
    /\ locale_no = 1
    /\ file_no = 1
    /\ summary = NoSummary
    /\ exit_status = -1
    /\ exception = "none"

InitLoad ==
    /\ lpc = "check"
    /\ file_data \in FilesUpTo(MaxRecords, Values)
    /\ warn_if_extra \in BOOLEAN
    /\ idx = 1
    /\ translatables = EmptyDict
    /\ total = 0
    /\ found_extra = FALSE
    /\ dup_warnings = 0
    /\ entry_warnings = 0
    /\ CmpIdle
    /\ FmtIdle
    /\ RunIdle

CheckDuplicateCodes ==
    /\ lpc = "check"
    /\ dup_warnings' = check_duplicate_codes(file_data)
    /\ lpc' = "loop"
    /\ UNCHANGED <<file_data, warn_if_extra, idx, translatables, total,
                   found_extra, entry_warnings>>
    /\ UNCHANGED <<cmpVars, fmtVars, runVars>>

LoadRecord ==
    /\ lpc = "loop"
    /\ idx <= Len(file_data)
    /\ LET L == load_record([translatables |-> translatables, order |-> <<>>,
                             total |-> total, found_extra |-> found_extra,
                             entry_warnings |-> entry_warnings],
                            file_data[idx])
       IN /\ translatables' = L.translatables
          /\ total' = L.total
          /\ found_extra' = L.found_extra
          /\ entry_warnings' = L.entry_warnings
    /\ idx' = idx + 1
    /\ UNCHANGED <<lpc, file_data, warn_if_extra, dup_warnings>>
    /\ UNCHANGED <<cmpVars, fmtVars, runVars>>

LoadReturn ==
    /\ lpc = "loop"
    /\ idx > Len(file_data)
    /\ LET L == load_return([translatables |-> translatables, order |-> <<>>,
                             total |-> total, found_extra |-> found_extra,
                             entry_warnings |-> entry_warnings],
                            warn_if_extra)
       IN translatables' = L.translatables
    /\ lpc' = "returned"
    /\ UNCHANGED <<file_data, warn_if_extra, idx, total, found_extra,
                   dup_warnings, entry_warnings>>
    /\ UNCHANGED <<cmpVars, fmtVars, runVars>>

NextLoad == CheckDuplicateCodes \/ LoadRecord \/ LoadReturn

SpecLoad == InitLoad /\ [][NextLoad]_vars

----------------------------------------------------------------------------
(* should_ignore and the body of compare_translations                      *)

should_ignore(ign, code, field, value) ==
    /\ code \in DOMAIN ign
    /\ field \in DOMAIN ign[code]
    /\ ign[code][field] = value

\* the comparison without the test for an empty source value
classify_unguarded(ign, code, field, value, i18n_strings) ==
    IF field \in DOMAIN i18n_strings
    THEN IF should_ignore(ign, code, field, i18n_strings[field])
         THEN "translated"
         ELSE IF value = i18n_strings[field]
              THEN "untranslated"
              ELSE "translated"
    ELSE "untranslated"

\* the branch the loop over en_strings takes for one field
classify(ign, code, field, value, i18n_strings) ==
    IF field \in DOMAIN i18n_strings
    THEN IF should_ignore(ign, code, field, i18n_strings[field])
         THEN "translated"
         ELSE IF value = i18n_strings[field] /\ value # ""
              THEN "untranslated"
              ELSE "translated"
    ELSE "untranslated"

\* the loop without the "continue": the strings of a code the source does
\* not have are counted as translated
compare_step_counting(S, i18n, ign, code) ==
    IF code \notin DOMAIN S.en_dict
    THEN [S EXCEPT !.unexpected = @ + 1,
                   !.stats.translated = @ + Len0(i18n[code])]
    ELSE LET en_strings == S.en_dict[code]
             i18n_strings == i18n[code]
             unt == { f \in DOMAIN en_strings :
                        classify(ign, code, f, en_strings[f], i18n_strings)
                            = "untranslated" }
             untranslated == [f \in unt |-> en_strings[f]]
             ntr == Cardinality((DOMAIN en_strings) \ unt)
         IN [en_dict |-> Pop(S.en_dict, code),
             stats |-> [S.stats EXCEPT
                          !.translated = @ + ntr,
                          !.untranslated =
                              IF Len0(untranslated) > 0
                              THEN Put(@, code, untranslated) ELSE @],
             unexpected |-> S.unexpected]

\* one iteration of the loop over i18n_dict.items(); S holds en_dict, stats
\* and the number of "unexpected translated entry" messages
compare_step(S, i18n, ign, code) ==
    IF code \notin DOMAIN S.en_dict
    THEN [S EXCEPT !.unexpected = @ + 1]
    ELSE LET en_strings == S.en_dict[code]
             i18n_strings == i18n[code]
             unt == { f \in DOMAIN en_strings :
                        classify(ign, code, f, en_strings[f], i18n_strings)
                            = "untranslated" }
             untranslated == [f \in unt |-> en_strings[f]]
             ntr == Cardinality((DOMAIN en_strings) \ unt)
         IN [en_dict |-> Pop(S.en_dict, code),
             stats |-> [S.stats EXCEPT
                          !.translated = @ + ntr,
                          !.untranslated =
                              IF Len0(untranslated) > 0
                              THEN Put(@, code, untranslated) ELSE @],
             unexpected |-> S.unexpected]

\* the statements after the loop: stats.missing is en_dict itself, and both
\* dictionaries are flattened for the messages when they are not empty
compare_finish(S) ==
    LET missing == IF Len0(S.en_dict) # 0
                   THEN flatten_i18n_dict(S.en_dict) ELSE S.en_dict
        untranslated == IF Len0(S.stats.untranslated) # 0
                        THEN flatten_i18n_dict(S.stats.untranslated)
                        ELSE S.stats.untranslated
    IN [en_dict |-> missing,
        stats |-> [S.stats EXCEPT !.missing = missing,
                                  !.untranslated = untranslated],
        unexpected |-> S.unexpected]

RECURSIVE compare_loop(_, _, _, _)
compare_loop(S, i18n, ign, order) ==
    IF order = <<>> THEN compare_finish(S)
    ELSE compare_loop(compare_step(S, i18n, ign, Head(order)), i18n, ign,
                      Tail(order))

\* i18nStats.__init__ and stats.total
NewStats(n) ==
    [total |-> n, translated |-> 0, untranslated |-> EmptyDict,
     missing |-> EmptyDict]

----------------------------------------------------------------------------
(* Spec: compare_translations for one locale and one file                  *)

Init ==
    /\ cpc = "load_en"
    /\ source = EmptyDict
    /\ en_dict = EmptyDict
    /\ i18n_dict = EmptyDict
    /\ i18n_order = <<>>
    /\ pos = 1
    /\ ignore_dict = EmptyDict
    /\ stats = NewStats(0)
    /\ unexpected = 0
    /\ LoadIdle
    /\ FmtIdle
    /\ RunIdle

LoadSource ==
    /\ cpc = "load_en"
    /\ \E f \in SourcePaths :
         LET r == load_translatable_dict(f, FALSE)
         IN /\ en_dict' = r.translatables
            /\ source' = r.translatables
            /\ stats' = NewStats(r.total)
    /\ cpc' = "load_i18n"
    /\ UNCHANGED <<i18n_dict, i18n_order, pos, ignore_dict, unexpected>>
    /\ UNCHANGED <<loadVars, fmtVars, runVars>>

LoadLocalized ==
    /\ cpc = "load_i18n"
    /\ \E f \in LocalizedPaths :
         LET r == load_translatable_dict(f, TRUE)
         IN /\ i18n_dict' = r.translatables
            /\ i18n_order' = r.order
    /\ pos' = 1
    /\ cpc' = "load_ignore"
    /\ UNCHANGED <<source, en_dict, ignore_dict, stats, unexpected>>
    /\ UNCHANGED <<loadVars, fmtVars, runVars>>

LoadIgnore ==
    /\ cpc = "load_ignore"
    /\ \E f \in IgnorePaths :
         ignore_dict' = load_translatable_dict(f, FALSE).translatables
    /\ cpc' = "loop"
    /\ UNCHANGED <<source, en_dict, i18n_dict, i18n_order, pos, stats,
                   unexpected>>
    /\ UNCHANGED <<loadVars, fmtVars, runVars>>

CompareStepTo(code) ==
    LET S == compare_step([en_dict |-> en_dict, stats |-> stats,
                           unexpected |-> unexpected],
                          i18n_dict, ignore_dict, code)
    IN /\ en_dict' = S.en_dict
       /\ stats' = S.stats
       /\ unexpected' = S.unexpected
       /\ pos' = pos + 1
       /\ UNCHANGED <<cpc, source, i18n_dict, i18n_order, ignore_dict>>
       /\ UNCHANGED <<loadVars, fmtVars, runVars>>

SkipUnexpected ==
    /\ cpc = "loop"
    /\ pos <= Len(i18n_order)
    /\ i18n_order[pos] \notin DOMAIN en_dict
    /\ CompareStepTo(i18n_order[pos])

CompareCode ==
    /\ cpc = "loop"
    /\ pos <= Len(i18n_order)
    /\ i18n_order[pos] \in DOMAIN en_dict
    /\ CompareStepTo(i18n_order[pos])

Finish ==
    /\ cpc = "loop"
    /\ pos > Len(i18n_order)
    /\ LET S == compare_finish([en_dict |-> en_dict, stats |-> stats,
                                unexpected |-> unexpected])
       IN /\ en_dict' = S.en_dict
          /\ stats' = S.stats
    /\ cpc' = "done"
    /\ UNCHANGED <<source, i18n_dict, i18n_order, pos, ignore_dict,
                   unexpected>>
    /\ UNCHANGED <<loadVars, fmtVars, runVars>>

Next ==
    \/ LoadSource
    \/ LoadLocalized
    \/ LoadIgnore
    \/ SkipUnexpected
    \/ CompareCode
    \/ Finish

Spec == Init /\ [][Next]_vars

----------------------------------------------------------------------------
(* Properties of load_translatable_dict (SpecLoad)                         *)

\* index of the first record of the file that carries the code
FirstIndex(data, code) ==
    CHOOSE i \in 1..Len(data) :
        /\ data[i]["code"] = code
        /\ \A j \in 1..(i - 1) : data[j]["code"] # code

CodesOf(data) == { data[i]["code"] : i \in 1..Len(data) }

FirstFields(data, code) ==
    Restrict(data[FirstIndex(data, code)], translatable_fields)

\* the Field Mapping in which the first occurrence of every code wins
FirstWins(data) ==
    [code \in { c \in CodesOf(data) : Len0(FirstFields(data, c)) > 0 }
        |-> FirstFields(data, code)]

LaterDuplicates(data) ==
    Cardinality({ i \in 1..Len(data) : i # FirstIndex(data, data[i]["code"]) })

\* C4: when a file holds a code more than once the first occurrence wins:
\* only the first record's whitelisted fields enter the Field Mapping and
\* total (also when the first record has no whitelisted field), and exactly
\* one warning is logged per later duplicate occurrence.
C4_FirstOccurrenceWins ==
    lpc = "returned" =>
        /\ translatables = FirstWins(file_data)
        /\ total = SumOver(FirstWins(file_data), DOMAIN FirstWins(file_data))
        /\ dup_warnings + entry_warnings = LaterDuplicates(file_data)

----------------------------------------------------------------------------
(* Properties of compare_translations (Spec)                               *)

Both == (DOMAIN source) \cap (DOMAIN i18n_dict)

\* the classification rule of section 4.3, for a code of Both and a field of
\* source[code]
Rule(code, field) ==
    LET sourceValue == source[code][field]
        loc == i18n_dict[code]
    IN IF field \notin DOMAIN loc THEN "untranslated"
       ELSE IF /\ code \in DOMAIN ignore_dict
               /\ field \in DOMAIN ignore_dict[code]
               /\ ignore_dict[code][field] = loc[field]
            THEN "translated"
            ELSE IF loc[field] = sourceValue /\ sourceValue # ""
                 THEN "untranslated"
                 ELSE "translated"

RuleFields(code, class) ==
    { f \in DOMAIN source[code] : Rule(code, f) = class }

RECURSIVE RuleCount(_, _)
RuleCount(S, class) ==
    IF S = {} THEN 0
    ELSE LET c == CHOOSE x \in S : TRUE
         IN Cardinality(RuleFields(c, class)) + RuleCount(S \ {c}, class)

\* C1: every field of a code present in both mappings is classified by the
\* rule; stats.translated is the number of translated classifications and
\* stats.untranslated[code] holds exactly the untranslated fields, each with
\* its source value.
C1_ClassifiedByRule ==
    cpc = "done" =>
        /\ stats.translated = RuleCount(Both, "translated")
        /\ \A code \in Both :
             IF RuleFields(code, "untranslated") = {}
             THEN code \notin DOMAIN stats.untranslated
             ELSE /\ code \in DOMAIN stats.untranslated
                  /\ stats.untranslated[code] =
                        [f \in RuleFields(code, "untranslated") |-> source[code][f]]

\* C2: when the localized file is absent or yields an empty mapping,
\* stats.missing is exactly the source Field Mapping, nothing more and
\* nothing less, stats.untranslated is empty and stats.translated is 0.
C2_MissingFile ==
    (cpc = "done" /\ i18n_dict = EmptyDict) =>
        /\ stats.missing = source
        /\ stats.untranslated = EmptyDict
        /\ stats.translated = 0

\* the localized file holds the records of the source file: the two loads
\* give the same whitelisted fields for the same codes
SameRecords ==
    /\ DOMAIN i18n_dict = DOMAIN source
    /\ \A code \in DOMAIN source :
         Restrict(i18n_dict[code], translatable_fields) = source[code]

\* C3 as stated: for a localized file identical to the source file, with no
\* ignore rules, translated == total and untranslated is empty.
C3_Completeness ==
    (cpc = "done" /\ SameRecords /\ ignore_dict = EmptyDict) =>
        /\ stats.translated = stats.total
        /\ stats.untranslated = EmptyDict

EmptyValued(code) == { f \in DOMAIN source[code] : source[code][f] = "" }

RECURSIVE EmptyCount(_)
EmptyCount(S) ==
    IF S = {} THEN 0
    ELSE LET c == CHOOSE x \in S : TRUE
         IN Cardinality(EmptyValued(c)) + EmptyCount(S \ {c})

\* C3 amended: for a localized file identical to the source file, with no
\* ignore rules, translated is the number of source fields whose value is
\* the empty string, stats.untranslated records every source field whose
\* value is not empty, with that value, and no field whose value is empty,
\* and nothing is missing.
C3_IdenticalIsUntranslated ==
    (cpc = "done" /\ SameRecords /\ ignore_dict = EmptyDict) =>
        /\ stats.translated = EmptyCount(DOMAIN source)
        /\ stats.missing = EmptyDict
        /\ \A code \in DOMAIN source : \A f \in DOMAIN source[code] :
             IF source[code][f] = ""
             THEN \/ code \notin DOMAIN stats.untranslated
                  \/ f \notin DOMAIN stats.untranslated[code]
             ELSE /\ code \in DOMAIN stats.untranslated
                  /\ f \in DOMAIN stats.untranslated[code]
                  /\ stats.untranslated[code][f] = source[code][f]

\* a run on an identical file that has both an empty and a non-empty value
C3_Witness ==
    /\ cpc = "done"
    /\ SameRecords
    /\ ignore_dict = EmptyDict
    /\ stats.translated > 0
    /\ stats.untranslated # EmptyDict
    /\ stats.translated < stats.total

\* the iteration order of the localized mapping without the codes the source
\* does not have
RECURSIVE KnownOrder(_)
KnownOrder(order) ==
    IF order = <<>> THEN <<>>
    ELSE IF Head(order) \in DOMAIN source
         THEN <<Head(order)>> \o KnownOrder(Tail(order))
         ELSE KnownOrder(Tail(order))

\* C9: a code of the localized mapping that the source mapping does not have
\* is logged and skipped: the step leaves stats (translated, untranslated,
\* missing, total) and the working copy of the source unchanged, and the
\* final stats are those of the comparison with these codes removed from the
\* localized mapping.
C9_ExtraCodeNoEffect ==
    /\ [][(cpc = "loop" /\ pos <= Len(i18n_order)
            /\ i18n_order[pos] \notin DOMAIN source)
            => (stats' = stats /\ en_dict' = en_dict
                /\ unexpected' = unexpected + 1)]_vars
    /\ [](cpc = "done" =>
            stats = compare_loop([en_dict |-> source,
                                  stats |-> NewStats(stats.total),
                                  unexpected |-> 0],
                                 Restrict(i18n_dict, DOMAIN source),
                                 ignore_dict,
                                 KnownOrder(i18n_order)).stats)

\* a finished comparison in which an unexpected code was skipped and another
\* code was compared
C9_Witness ==
    /\ cpc = "done"
    /\ unexpected > 0
    /\ Both # {}
    /\ stats.translated + Len0(stats.untranslated) > 0

\* the whitelisted fields a mapping of stats records
RECURSIVE Recorded(_, _)
Recorded(d, S) ==
    IF S = {} THEN 0
    ELSE LET k == CHOOSE x \in S : TRUE
         IN Cardinality((DOMAIN d[k]) \cap translatable_fields)
              + Recorded(d, S \ {k})

\* the whitelisted fields that a mapping of stats records are fields of the
\* source Field Mapping, with their source values
FromSource(d) ==
    \A code \in DOMAIN d :
        /\ code \in DOMAIN source
        /\ \A f \in (DOMAIN d[code]) \cap translatable_fields :
             f \in DOMAIN source[code] /\ d[code][f] = source[code][f]

\* C10: the comparison partitions the source Field Mapping: every pair that
\* stats.untranslated or stats.missing records is a pair of the source, no
\* code is in both, and translated plus the whitelisted fields recorded in
\* stats.untranslated plus the whitelisted fields recorded in stats.missing
\* is stats.total, the sum of the field counts of the source Field Mapping.
C10_Partition ==
    cpc = "done" =>
        /\ FromSource(stats.untranslated)
        /\ FromSource(stats.missing)
        /\ (DOMAIN stats.untranslated) \cap (DOMAIN stats.missing) = {}
        /\ stats.total = SumOver(source, DOMAIN source)
        /\ stats.translated
             + Recorded(stats.untranslated, DOMAIN stats.untranslated)
             + Recorded(stats.missing, DOMAIN stats.missing)
           = stats.total

\* a finished comparison with a translated, an untranslated and a missing
\* field
C10_Witness ==
    /\ cpc = "done"
    /\ stats.translated > 0
    /\ stats.untranslated # EmptyDict
    /\ stats.missing # EmptyDict

----------------------------------------------------------------------------
(* Texts are sequences of characters.  A JSON value is a record: a string  *)
(* (t = "str", its characters in s), a number, true, false or null         *)
(* (t = "lit", its spelling in s), a list (t = "list", items) or an object *)
(* (t = "obj", m maps the keys to the values).                             *)

MaxStrLen == 3
MaxItems == 2
MaxDepth == 9

U2018 == "U+2018"
U2019 == "U+2019"
U2212 == "U+2212"
U2013 == "U+2013"

Str(s) == [t |-> "str", s |-> s, items |-> <<>>, m |-> <<>>]
Lit(s) == [t |-> "lit", s |-> s, items |-> <<>>, m |-> <<>>]
List(items) == [t |-> "list", s |-> <<>>, items |-> items, m |-> <<>>]
Obj(m) == [t |-> "obj", s |-> <<>>, items |-> <<>>, m |-> m]

\* code points of the characters of the model, for the order of the keys
CodePoint(c) ==
    CASE c = "\t" -> 9 [] c = "\n" -> 10 [] c = "\r" -> 13 [] c = " " -> 32
      [] c = "\"" -> 34 [] c = "'" -> 39 [] c = "," -> 44 [] c = "-" -> 45
      [] c = "1" -> 49 [] c = ":" -> 58 [] c = "[" -> 91 [] c = "\\" -> 92
      [] c = "]" -> 93 [] c = "a" -> 97 [] c = "e" -> 101 [] c = "l" -> 108
      [] c = "n" -> 110 [] c = "r" -> 114 [] c = "t" -> 116 [] c = "u" -> 117
      [] c = "{" -> 123 [] c = "}" -> 125
      [] c = U2013 -> 8211 [] c = U2018 -> 8216 [] c = U2019 -> 8217
      [] c = U2212 -> 8722

RECURSIVE KeyLess(_, _)
KeyLess(a, b) ==
    IF a = <<>> THEN b # <<>>
    ELSE IF b = <<>> THEN FALSE
    ELSE IF Head(a) = Head(b) THEN KeyLess(Tail(a), Tail(b))
    ELSE CodePoint(Head(a)) < CodePoint(Head(b))

RECURSIVE SortedKeys(_)
SortedKeys(S) ==
    IF S = {} THEN <<>>
    ELSE LET k == CHOOSE x \in S : \A y \in S \ {x} : KeyLess(x, y)
         IN <<k>> \o SortedKeys(S \ {k})

----------------------------------------------------------------------------
(* json.dumps(ensure_ascii=False, sort_keys=True, indent=4,                *)
(*            separators=(',', ': '))                                      *)

\* an encoder that writes the backslash as it is
escape_char_plain(c) ==
    CASE c = "\"" -> <<"\\", "\"">>
      [] c = "\n" -> <<"\\", "n">>
      [] c = "\r" -> <<"\\", "r">>
      [] c = "\t" -> <<"\\", "t">>
      [] OTHER -> <<c>>

escape_char(c) ==
    CASE c = "\"" -> <<"\\", "\"">>
      [] c = "\\" -> <<"\\", "\\">>
      [] c = "\n" -> <<"\\", "n">>
      [] c = "\r" -> <<"\\", "r">>
      [] c = "\t" -> <<"\\", "t">>
      [] OTHER -> <<c>>

RECURSIVE escape(_)
escape(s) ==
    IF s = <<>> THEN <<>> ELSE escape_char(Head(s)) \o escape(Tail(s))

dump_string(s) == <<"\"">> \o escape(s) \o <<"\"">>

Spaces(n) == [i \in 1..n |-> " "]

RECURSIVE dump_value(_, _)
RECURSIVE dump_items(_, _, _)
RECURSIVE dump_members(_, _, _, _)

dump_value(v, level) ==
    CASE v.t = "str" -> dump_string(v.s)
      [] v.t = "lit" -> v.s
      [] v.t = "list" ->
           IF v.items = <<>> THEN <<"[", "]">>
           ELSE <<"[">> \o dump_items(v.items, 1, level + 1)
                \o <<"\n">> \o Spaces(4 * level) \o <<"]">>
      [] v.t = "obj" ->
           IF DOMAIN v.m = {} THEN <<"{", "}">>
           ELSE <<"{">> \o dump_members(v.m, SortedKeys(DOMAIN v.m), 1, level + 1)
                \o <<"\n">> \o Spaces(4 * level) \o <<"}">>

dump_items(items, i, level) ==
    IF i > Len(items) THEN <<>>
    ELSE (IF i > 1 THEN <<",">> ELSE <<>>)
         \o <<"\n">> \o Spaces(4 * level)
         \o dump_value(items[i], level)
         \o dump_items(items, i + 1, level)

dump_members(m, keys, i, level) ==
    IF i > Len(keys) THEN <<>>
    ELSE (IF i > 1 THEN <<",">> ELSE <<>>)
         \o <<"\n">> \o Spaces(4 * level)
         \o dump_string(keys[i]) \o <<":", " ">>
         \o dump_value(m[keys[i]], level)
         \o dump_members(m, keys, i + 1, level)

json_dumps(v) == dump_value(v, 0)

----------------------------------------------------------------------------
(* str.replace and re.sub("^" + "    " * i, "\t" * i, flags=re.MULTILINE)  *)

MatchAt(text, p, old) ==
    /\ p + Len(old) - 1 <= Len(text)
    /\ \A k \in 1..Len(old) : text[p + k - 1] = old[k]

Min(S) == CHOOSE x \in S : \A y \in S : x <= y

\* the occurrences are replaced from the left and do not overlap: the text
\* is copied up to the next occurrence at or after p, and the search goes on
\* behind it
RECURSIVE replace_from(_, _, _, _)
replace_from(text, old, new, p) ==
    LET found == { q \in p..Len(text) : MatchAt(text, q, old) }
    IN IF found = {} THEN SubSeq(text, p, Len(text))
       ELSE SubSeq(text, p, Min(found) - 1) \o new
            \o replace_from(text, old, new, Min(found) + Len(old))

replace(text, old, new) ==
    IF Len(text) < Len(old) THEN text ELSE replace_from(text, old, new, 1)

Tabs(n) == [i \in 1..n |-> "\t"]

\* the positions "^" matches with re.MULTILINE
LineStarts(text) ==
    {1} \cup { q + 1 : q \in { r \in 1..Len(text) : text[r] = "\n" } }

\* the pieces f[lo], ..., f[hi] put together, one half after the other
RECURSIVE Concat(_, _, _)
Concat(f, lo, hi) ==
    IF lo > hi THEN <<>>
    ELSE IF lo = hi THEN f[lo]
    ELSE Concat(f, lo, (lo + hi) \div 2) \o Concat(f, (lo + hi) \div 2 + 1, hi)

\* a match holds spaces only, so it ends before the next line starts and no
\* two matches overlap: each is replaced where it stands
re_sub_indent(text, i) ==
    LET found == { q \in LineStarts(text) : MatchAt(text, q, Spaces(4 * i)) }
        piece == [ q \in 1..Len(text) |->
                     IF q \in found THEN Tabs(i)
                     ELSE IF \E m \in found : m < q /\ q < m + 4 * i THEN <<>>
                     ELSE <<text[q]>> ]
    IN Concat(piece, 1, Len(text))

RECURSIVE indent_to_tabs(_, _)
indent_to_tabs(text, i) ==
    IF i = 0 \/ text = <<>> THEN text
    ELSE indent_to_tabs(re_sub_indent(text, i), i - 1)

----------------------------------------------------------------------------
(* format_json                                                             *)

substitute(text) ==
    LET t1 == replace(replace(text, <<U2018>>, <<"'">>), <<U2019>>, <<"'">>)
        t2 == replace(replace(t1, <<U2212>>, <<"-">>), <<U2013>>, <<"-">>)
        t3 == replace(replace(t2, <<"\\", "r", "\\", "n">>, <<"\\", "n">>),
                      <<" ", "\\", "n">>, <<"\\", "n">>)
    IN replace(t3, <<"]", "[">>, <<"]", " ", "[">>)

format_json(v) == indent_to_tabs(substitute(json_dumps(v)), 8) \o <<"\n">>

----------------------------------------------------------------------------
(* json.loads                                                              *)

IsWhitespace(c) == c \in {" ", "\t", "\n", "\r"}

\* the first position at or after p that holds no whitespace
skip_ws(text, p) ==
    IF p > Len(text) THEN p
    ELSE Min({ q \in p..(Len(text) + 1) :
                 q > Len(text) \/ ~IsWhitespace(text[q]) })

Literals == { <<"1">>, <<"t", "r", "u", "e">>, <<"n", "u", "l", "l">> }

LiteralChars == {"1", "t", "r", "u", "e", "n", "l"}

Failed == [ok |-> FALSE, v |-> Lit(<<>>), p |-> 0]

Parsed(v, p) == [ok |-> TRUE, v |-> v, p |-> p]

unescape(e) ==
    CASE e = "\"" -> "\"" [] e = "\\" -> "\\" [] e = "n" -> "\n"
      [] e = "r" -> "\r" [] e = "t" -> "\t"

\* the characters of a string, from the position after its opening quote
RECURSIVE parse_chars(_, _, _)
parse_chars(text, p, acc) ==
    IF p > Len(text) THEN Failed
    ELSE IF text[p] = "\"" THEN Parsed(Str(acc), p + 1)
    ELSE IF text[p] = "\\"
         THEN IF p + 1 <= Len(text) /\ text[p + 1] \in {"\"", "\\", "n", "r", "t"}
              THEN parse_chars(text, p + 2, Append(acc, unescape(text[p + 1])))
              ELSE Failed
    ELSE IF text[p] \in {"\n", "\r", "\t"} THEN Failed
    ELSE parse_chars(text, p + 1, Append(acc, text[p]))

\* the first position at or after p that holds no character of a literal
literal_end(text, p) ==
    IF p > Len(text) THEN p
    ELSE Min({ q \in p..(Len(text) + 1) :
                 q > Len(text) \/ text[q] \notin LiteralChars })

\* the decoder reads the text from left to right; it keeps the containers
\* it is inside of, innermost last, each with what it has read of it
Scan(st, p, stack, v) == [st |-> st, p |-> p, stack |-> stack, v |-> v]

Frame(t, items, m, key) == [t |-> t, items |-> items, m |-> m, key |-> key]

ScanFailed == Scan("fail", 0, <<>>, Lit(<<>>))

Pushed(stack, frame) == Append(stack, frame)

Popped(stack) == SubSeq(stack, 1, Len(stack) - 1)

Top(stack) == stack[Len(stack)]

\* a value is expected at c.p
scan_value(text, c) ==
    LET p == skip_ws(text, c.p)
        q == skip_ws(text, p + 1)
        s == parse_chars(text, p + 1, <<>>)
        e == literal_end(text, p)
    IN CASE p > Len(text) -> ScanFailed
         [] p <= Len(text) /\ text[p] = "\"" ->
              IF s.ok THEN Scan("after", s.p, c.stack, s.v) ELSE ScanFailed
         [] p <= Len(text) /\ text[p] = "[" ->
              IF q <= Len(text) /\ text[q] = "]"
              THEN Scan("after", q + 1, c.stack, List(<<>>))
              ELSE Scan("value", p + 1,
                        Pushed(c.stack, Frame("list", <<>>, EmptyDict, <<>>)), c.v)
         [] p <= Len(text) /\ text[p] = "{" ->
              IF q <= Len(text) /\ text[q] = "}"
              THEN Scan("after", q + 1, c.stack, Obj(EmptyDict))
              ELSE Scan("key", p + 1,
                        Pushed(c.stack, Frame("obj", <<>>, EmptyDict, <<>>)), c.v)
         [] OTHER ->
              IF e > p /\ SubSeq(text, p, e - 1) \in Literals
              THEN Scan("after", e, c.stack, Lit(SubSeq(text, p, e - 1)))
              ELSE ScanFailed

\* a key and its colon are expected at c.p
scan_key(text, c) ==
    LET p == skip_ws(text, c.p)
        k == parse_chars(text, p + 1, <<>>)
        colon == skip_ws(text, k.p)
        top == Top(c.stack)
    IN CASE p > Len(text) -> ScanFailed
         [] p <= Len(text) /\ text[p] # "\"" -> ScanFailed
         [] OTHER ->
              IF k.ok /\ colon <= Len(text) /\ text[colon] = ":"
              THEN Scan("value", colon + 1,
                        Pushed(Popped(c.stack),
                               Frame("obj", <<>>, top.m, k.v.s)), c.v)
              ELSE ScanFailed

\* the value c.v has been read: it is the whole text, or an item of the
\* innermost list, or the value of the pending key of the innermost object,
\* where a key that comes twice keeps its last value
scan_after(text, c) ==
    LET q == skip_ws(text, c.p)
        top == Top(c.stack)
        items == Append(top.items, c.v)
        m == Put(top.m, top.key, c.v)
    IN CASE c.stack = <<>> ->
              IF q > Len(text) THEN Scan("done", c.p, <<>>, c.v) ELSE ScanFailed
         [] c.stack # <<>> /\ q > Len(text) -> ScanFailed
         [] c.stack # <<>> /\ q <= Len(text) /\ top.t = "list" ->
              CASE text[q] = "," ->
                     Scan("value", q + 1,
                          Pushed(Popped(c.stack),
                                 Frame("list", items, EmptyDict, <<>>)), c.v)
                [] text[q] = "]" ->
                     Scan("after", q + 1, Popped(c.stack), List(items))
                [] OTHER -> ScanFailed
         [] OTHER ->
              CASE text[q] = "," ->
                     Scan("key", q + 1,
                          Pushed(Popped(c.stack), Frame("obj", <<>>, m, <<>>)),
                          c.v)
                [] text[q] = "}" ->
                     Scan("after", q + 1, Popped(c.stack), Obj(m))
                [] OTHER -> ScanFailed

scan_step(text, c) ==
    CASE c.st = "value" -> scan_value(text, c)
      [] c.st = "key" -> scan_key(text, c)
      [] c.st = "after" -> scan_after(text, c)
      [] OTHER -> c

\* n steps of the decoder, the first half of them and then the rest
RECURSIVE scan_steps(_, _, _)
scan_steps(text, c, n) ==
    IF n <= 1 THEN scan_step(text, c)
    ELSE LET half == scan_steps(text, c, n \div 2)
         IN IF half.st \in {"done", "fail"} THEN half
            ELSE scan_steps(text, half, n - (n \div 2))

\* the decoded value, or ok = FALSE when the text is not JSON (ValueError);
\* every step but the last one reads at least one character
json_loads(text) ==
    LET c == scan_steps(text, Scan("value", 1, <<>>, Lit(<<>>)), Len(text) + 1)
    IN IF c.st = "done" THEN Parsed(c.v, c.p) ELSE Failed

----------------------------------------------------------------------------
(* SpecFmt: a decoded value is formatted, the canonical text is decoded    *)
(* again (the next load_json_file of a fixed file) and formatted again     *)

StringChars == {"a", " ", "\n", "\r", "\\", "r", "n", "]", "[", "\"", U2018, U2212}

StringsUpTo(n) == UNION { [1..k -> StringChars] : k \in 0..n }

ShortValues == { Str(s) : s \in StringsUpTo(1) } \cup { Lit(l) : l \in Literals }

ListsUpTo(n, elems) == { List(items) : items \in UNION { [1..k -> elems] : k \in 0..n } }

ObjectsUpTo(n, keys, elems) ==
    { Obj(m) : m \in UNION { [K -> elems] :
                             K \in { X \in SUBSET keys : Cardinality(X) <= n } } }

RECURSIVE Nested(_, _)
Nested(v, depth) == IF depth = 0 THEN v ELSE List(<<Nested(v, depth - 1)>>)

JsonValues ==
    { Str(s) : s \in StringsUpTo(MaxStrLen) }
    \cup { Lit(l) : l \in Literals }
    \cup ListsUpTo(MaxItems, ShortValues \cup {List(<<>>), Obj(<<>>)})
    \cup ObjectsUpTo(MaxItems, StringsUpTo(1), {Str(<<"a">>), Str(<<"]">>), List(<<>>)})
    \cup { Nested(v, d) : v \in {Str(<<"[">>), Obj((<<"a">> :> List(<<Str(<<"]">>), Str(<<"[">>)>>)))},
                          d \in 1..MaxDepth }

InitFmt ==
    /\ fpc = "loaded"
    /\ json_data \in JsonValues
    /\ formatted = <<>>
    /\ reparsed = <<>>
    /\ reformatted = <<>>
    /\ LoadIdle
    /\ CmpIdle
    /\ RunIdle

\* formatted_raw_data = format_json(json_data)
Format ==
    /\ fpc = "loaded"
    /\ formatted' = format_json(json_data)
    /\ fpc' = "formatted"
    /\ UNCHANGED <<json_data, reparsed, reformatted>>
    /\ UNCHANGED <<loadVars, cmpVars, runVars>>

\* the canonical text is read back: json_data = json.loads(raw_data)
Decode ==
    /\ fpc = "formatted"
    /\ LET r == json_loads(formatted)
       IN IF r.ok THEN reparsed' = r.v /\ fpc' = "decoded"
                  ELSE reparsed' = <<>> /\ fpc' = "invalid"
    /\ UNCHANGED <<json_data, formatted, reformatted>>
    /\ UNCHANGED <<loadVars, cmpVars, runVars>>

\* formatted_raw_data = format_json(json_data), compared with raw_data
Reformat ==
    /\ fpc = "decoded"
    /\ reformatted' = format_json(reparsed)
    /\ fpc' = "reformatted"
    /\ UNCHANGED <<json_data, formatted, reparsed>>
    /\ UNCHANGED <<loadVars, cmpVars, runVars>>

NextFmt == Format \/ Decode \/ Reformat

SpecFmt == InitFmt /\ [][NextFmt]_vars

\* C5: formatting is idempotent: decoding format_json(x) and formatting the
\* result again yields exactly format_json(x), so a file rewritten with its
\* canonical text is found canonically formatted by the next load.
C5_Idempotent ==
    /\ fpc # "invalid"
    /\ fpc = "reformatted" => reformatted = formatted

\* C6 as stated: decoding format_json(x) gives a value structurally equal
\* to x.
C6_RoundTrip ==
    fpc \in {"decoded", "reformatted"} => reparsed = json_data

Rewritten ==
    { <<U2018>>, <<U2019>>, <<U2212>>, <<U2013>>,
      <<"\\", "r", "\\", "n">>, <<" ", "\\", "n">>, <<"]", "[">> }

Occurs(old, text) == \E p \in 1..Len(text) : MatchAt(text, p, old)

\* no rule of the formatter rewrites a character of the rendering of x
Untouched(v) == \A old \in Rewritten : ~Occurs(old, json_dumps(v))

\* C6 amended: when the rendering of x holds none of the sequences that the
\* formatter rewrites (curly single quotes, minus sign, en-dash, the escapes
\* \r\n, a space before the escape \n, and ][), the canonical text is valid
\* JSON and decoding it gives a value structurally equal to x.
C6_RoundTripUntouched ==
    Untouched(json_data) =>
        /\ fpc # "invalid"
        /\ fpc \in {"decoded", "reformatted"} => reparsed = json_data

\* an object nested in lists, with keys to sort, has been formatted and
\* decoded
C6_Witness ==
    /\ fpc = "decoded"
    /\ Untouched(json_data)
    /\ json_data.t = "list"
    /\ \E p \in 1..Len(formatted) : formatted[p] = "\t"
    /\ \E p \in 1..Len(formatted) : formatted[p] = "\\"

----------------------------------------------------------------------------
(* SpecRun: main.  The content of a file is reduced to what load_json_file *)
(* tells apart: no file, canonical JSON, JSON that is not in canonical     *)
(* form, text that is not JSON, and JSON whose rendering holds <sup>.      *)

NumLocales == 2
NumFiles == 2

FileStates == {"absent", "canonical", "not_canonical", "malformed", "sup"}

\* load_json_file: what it adds to the counters, whether the branch of line
\* 64 is taken, and how it ends: with the data, with None or with an
\* exception that it does not catch
load_json_file(state) ==
    CASE state = "absent" ->
           [validation |-> 0, formatting |-> 0, differs |-> FALSE,
            outcome |-> "FileNotFoundError"]
      [] state = "malformed" ->
           [validation |-> 1, formatting |-> 0, differs |-> FALSE,
            outcome |-> "AttributeError"]
      [] state = "sup" ->
           [validation |-> 1, formatting |-> 0, differs |-> FALSE,
            outcome |-> "None"]
      [] state = "not_canonical" ->
           [validation |-> 0, formatting |-> 0, differs |-> TRUE,
            outcome |-> "data"]
      [] state = "canonical" ->
           [validation |-> 0, formatting |-> 0, differs |-> FALSE,
            outcome |-> "data"]

\* what the caller does with the result: load_cycles keeps None, the loop
\* of load_packs and check_duplicate_codes iterate over it
use_of(outcome, iterated) ==
    IF outcome = "None" /\ iterated THEN "TypeError" ELSE outcome

InitRun ==
    /\ rpc = "load_cycles"
    /\ fix_formatting \in BOOLEAN
    /\ formatting_errors = 0
    /\ validation_errors = 0
    /\ not_canonical = 0
    /\ rewritten = 0
    /\ last_file = "none"
    /\ cycles = "unset"
    /\ locale_no = 1
    /\ file_no = 1
    /\ summary = NoSummary
    /\ exit_status = -1
    /\ exception = "none"
    /\ LoadIdle
    /\ CmpIdle
    /\ FmtIdle

\* one call of load_json_file on a file in the given state; written tells
\* whether the rewrite of a file that is not canonical succeeds
Account(state, written) ==
    LET r == load_json_file(state) IN
    /\ validation_errors' = validation_errors + r.validation
    /\ formatting_errors' = formatting_errors + r.formatting
    /\ not_canonical' = not_canonical + (IF r.differs THEN 1 ELSE 0)
    /\ rewritten' = rewritten
                     + (IF r.differs /\ fix_formatting /\ written THEN 1 ELSE 0)
    /\ last_file' = state

Raise(e) ==
    /\ rpc' = "aborted"
    /\ exception' = e
    /\ exit_status' = 1
    /\ UNCHANGED <<cycles, locale_no, file_no, summary>>

LoadCycles ==
    /\ rpc = "load_cycles"
    /\ \E state \in FileStates, written \in BOOLEAN :
         LET out == use_of(load_json_file(state).outcome, FALSE) IN
         /\ Account(state, written)
         /\ IF out \in {"data", "None"}
            THEN /\ cycles' = out
                 /\ rpc' = "load_packs"
                 /\ UNCHANGED <<locale_no, file_no, summary, exit_status, exception>>
            ELSE Raise(out)
    /\ UNCHANGED fix_formatting
    /\ UNCHANGED <<loadVars, cmpVars, fmtVars>>

LoadPacks ==
    /\ rpc = "load_packs"
    /\ \E state \in FileStates, written \in BOOLEAN :
         LET out == use_of(load_json_file(state).outcome, TRUE) IN
         /\ Account(state, written)
         /\ IF out = "data"
            THEN /\ rpc' = IF cycles = "data" THEN "load_en" ELSE "summary"
                 /\ UNCHANGED <<cycles, locale_no, file_no, summary, exit_status,
                                exception>>
            ELSE Raise(out)
    /\ UNCHANGED fix_formatting
    /\ UNCHANGED <<loadVars, cmpVars, fmtVars>>

\* load_translatable_dict inside compare_translations: a path that
\* check_file_access rejects gives an empty dictionary
LoadTranslatable(here, Continue) ==
    /\ rpc = here
    /\ \E state \in FileStates, written \in BOOLEAN :
         IF state = "absent"
         THEN /\ last_file' = state
              /\ UNCHANGED <<validation_errors, formatting_errors,
                             not_canonical, rewritten>>
              /\ Continue
         ELSE LET out == use_of(load_json_file(state).outcome, TRUE) IN
              /\ Account(state, written)
              /\ IF out = "data" THEN Continue ELSE Raise(out)
    /\ UNCHANGED fix_formatting
    /\ UNCHANGED <<loadVars, cmpVars, fmtVars>>

Goto(there) ==
    /\ rpc' = there
    /\ UNCHANGED <<cycles, locale_no, file_no, summary, exit_status, exception>>

\* the comparison of one file is over: the next file, the next locale or
\* the end of check_all_locales
NextFile ==
    /\ IF file_no < NumFiles
       THEN file_no' = file_no + 1 /\ locale_no' = locale_no /\ rpc' = "load_en"
       ELSE IF locale_no < NumLocales
            THEN file_no' = 1 /\ locale_no' = locale_no + 1 /\ rpc' = "load_en"
            ELSE file_no' = file_no /\ locale_no' = locale_no /\ rpc' = "summary"
    /\ UNCHANGED <<cycles, summary, exit_status, exception>>

LoadEnFile == LoadTranslatable("load_en", Goto("load_i18n"))

LoadI18nFile == LoadTranslatable("load_i18n", Goto("load_ignore"))

LoadIgnoreFile == LoadTranslatable("load_ignore", NextFile)

\* the summary line and sys.exit
Exit ==
    /\ rpc = "summary"
    /\ summary' = [printed |-> TRUE, formatting |-> formatting_errors,
                   validation |-> validation_errors]
    /\ exit_status' = IF formatting_errors = 0 /\ validation_errors = 0
                      THEN 0 ELSE 1
    /\ rpc' = "exited"
    /\ UNCHANGED <<fix_formatting, formatting_errors, validation_errors,
                   not_canonical, rewritten, last_file, cycles, locale_no, file_no,
                   exception>>
    /\ UNCHANGED <<loadVars, cmpVars, fmtVars>>

NextRun ==
    \/ LoadCycles
    \/ LoadPacks
    \/ LoadEnFile
    \/ LoadI18nFile
    \/ LoadIgnoreFile
    \/ Exit

SpecRun == InitRun /\ [][NextRun]_vars

\* C7: the run exits with status 0 exactly when no formatting error (a file
\* whose text differs from its canonical rendering) and no validation error
\* was observed, and with status 1 otherwise; the summary line reports both
\* counts.
C7_ExitStatus ==
    rpc = "exited" =>
        /\ exit_status = 0 <=> (not_canonical = 0 /\ validation_errors = 0)
        /\ exit_status \in {0, 1}
        /\ summary = [printed |-> TRUE, formatting |-> not_canonical,
                      validation |-> validation_errors]

\* C8: a file that is not JSON, or whose rendering holds <sup>, costs one
\* validation error and yields no data; the file is skipped and the run goes
\* on to the summary: no exception ends the run.
C8_ErrorsNotFatal ==
    [][(rpc \notin {"exited", "aborted", "summary"}
        /\ last_file' \in {"malformed", "sup"}
        /\ rpc' # rpc)
          => /\ validation_errors' = validation_errors + 1
             /\ rpc' # "aborted"
             /\ exception' = "none"]_vars

====
